---------------------------- MODULE Spec2Model ----------------------------
(***************************************************************************)
(* Model of the two makemake programs of antlr4-grammars:                  *)
(*                                                                         *)
(*   src/makemake.go                 walks grammars-v4 for pom.xml files,  *)
(*                                   aggregates them into a projects map   *)
(*                                   and renders a Makefile  (Spec)        *)
(*   src/internal/tools/makemake.go  walks grammars-v4 for .g4 files,      *)
(*                                   merges parser/lexer grammars and      *)
(*                                   renders a Makefile      (SpecG4)      *)
(*                                                                         *)
(* Go strings are modelled as sequences of their bytes, so that            *)
(* strings.HasSuffix, strings.TrimSuffix, strings.Contains,                *)
(* strings.ToLower, concatenation and the byte-wise order of sort.Strings  *)
(* are computed as the code computes them.                                 *)
(***************************************************************************)
EXTENDS Integers, Sequences, FiniteSets, TLC

(***************************************************************************)
(* Bounds of the model.                                                    *)
(***************************************************************************)
\* most files of the pom.xml tree one input directory holds
MaxFiles == 3
\* most files of the .g4 tree one input directory holds
MaxG4Files == 3

(***************************************************************************)
(* Go's strings package, on byte sequences.                                *)
(***************************************************************************)
\* strings.HasSuffix
HasSuffix(s, suffix) ==
    /\ Len(s) >= Len(suffix)
    /\ SubSeq(s, Len(s) - Len(suffix) + 1, Len(s)) = suffix

\* strings.TrimSuffix
TrimSuffix(s, suffix) ==
    IF HasSuffix(s, suffix) THEN SubSeq(s, 1, Len(s) - Len(suffix)) ELSE s

\* strings.Contains
Contains(s, substr) ==
    \E i \in 0..(Len(s) - Len(substr)) : SubSeq(s, i + 1, i + Len(substr)) = substr

\* strings.ToLower on ASCII: 'A'..'Z' (65..90) become 'a'..'z'
ToLower(s) ==
    [i \in 1..Len(s) |-> IF s[i] >= 65 /\ s[i] <= 90 THEN s[i] + 32 ELSE s[i]]

\* Go's < on strings: byte-wise lexicographic order
StrLess(a, b) ==
    \E k \in 1..Len(b) :
        /\ \A j \in 1..(k - 1) : j <= Len(a) /\ a[j] = b[j]
        /\ k - 1 <= Len(a)
        /\ (k > Len(a) \/ a[k] < b[k])

RECURSIVE InsertSorted(_, _)
InsertSorted(x, s) ==
    IF s = <<>> THEN <<x>>
    ELSE IF StrLess(s[1], x) THEN <<s[1]>> \o InsertSorted(x, Tail(s))
    ELSE <<x>> \o s

\* sort.Strings
RECURSIVE SortStrings(_)
SortStrings(s) ==
    IF s = <<>> THEN <<>> ELSE InsertSorted(Head(s), SortStrings(Tail(s)))

RECURSIVE SetToSeq(_)
SetToSeq(S) ==
    IF S = {} THEN <<>>
    ELSE LET x == CHOOSE y \in S : TRUE IN <<x>> \o SetToSeq(S \ {x})

\* text/template ranges over a map in the sorted order of its keys
SortedKeys(m) == SortStrings(SetToSeq(DOMAIN m))

\* the map m without key k (Go's delete)
MapDelete(m, k) == [x \in DOMAIN m \ {k} |-> m[x]]

\* the map m with m[k] = v (Go's assignment to a map element)
MapPut(m, k, v) == [x \in DOMAIN m \cup {k} |-> IF x = k THEN v ELSE m[x]]

(***************************************************************************)
(* src/makemake.go: constants.                                             *)
(***************************************************************************)
\* "/"
Slash == <<47>>
\* "/pom.xml"
PomSuffix == <<47,112,111,109,46,120,109,108>>
\* "_test.go"
TestSuffix == <<95,116,101,115,116,46,103,111>>

\* IGNORE = {"objc", "swift-fin"}
IGNORE ==
    << <<111,98,106,99>>,
       <<115,119,105,102,116,45,102,105,110>> >>

(***************************************************************************)
(* The input directories of the pom.xml program.  PomPool lists, in the    *)
(* lexical order filepath.Walk visits them, the paths a directory may      *)
(* hold; a directory holds at most MaxFiles of them.                       *)
(***************************************************************************)
PomPool ==
    << \* grammars-v4/abnf/README.md
       <<103,114,97,109,109,97,114,115,45,118,52,47,97,98,110,102,47,82,69,65,68,77,69,46,109,100>>,
       \* grammars-v4/abnf/pom.xml
       <<103,114,97,109,109,97,114,115,45,118,52,47,97,98,110,102,47,112,111,109,46,120,109,108>>,
       \* grammars-v4/asm6502/pom.xml
       <<103,114,97,109,109,97,114,115,45,118,52,47,97,115,109,54,53,48,50,47,112,111,109,46,120,109,108>>,
       \* grammars-v4/objc/pom.xml
       <<103,114,97,109,109,97,114,115,45,118,52,47,111,98,106,99,47,112,111,109,46,120,109,108>>,
       \* grammars-v4/swift-fin/pom.xml
       <<103,114,97,109,109,97,114,115,45,118,52,47,115,119,105,102,116,45,102,105,110,47,112,111,109,46,120,109,108>>,
       \* grammars-v4/xobjc/pom.xml
       <<103,114,97,109,109,97,114,115,45,118,52,47,120,111,98,106,99,47,112,111,109,46,120,109,108>> >>

PomPoolSorted ==
    \A i \in 1..(Len(PomPool) - 1) : StrLess(PomPool[i], PomPool[i + 1])

\* package names ("ab", "abnf"), include and generated file names
PkgAb == <<97,98>>
PkgAbnf == <<97,98,110,102>>
IncAbnf == <<65,98,110,102,46,103,52>>
GenLexer == <<97,98,110,102,95,108,101,120,101,114,46,103,111>>
GenParser == <<97,98,110,102,95,112,97,114,115,101,114,46,103,111>>

\* What a file of the directory is: what filepath.Walk reports for it
\* (walkErr) and what internal.ParsePom returns for it: an error
\* (parseErr), or a Project with its FoundAntlr4MavenPlugin, Includes,
\* FilePrefix, PackageName() and GeneratedFilenames().
Desc(werr, perr, plugin, includes, pkg, gen) ==
    [walkErr |-> werr, parseErr |-> perr, FoundAntlr4MavenPlugin |-> plugin,
     Includes |-> includes, PackageName |-> pkg, FilePrefix |-> pkg,
     GeneratedFilenames |-> gen]

DescKinds ==
    { Desc(TRUE, FALSE, FALSE, <<>>, PkgAb, <<>>),
      Desc(FALSE, TRUE, FALSE, <<>>, PkgAb, <<>>),
      Desc(FALSE, FALSE, FALSE, <<IncAbnf>>, PkgAb, <<GenLexer, GenParser>>),
      Desc(FALSE, FALSE, TRUE, <<>>, PkgAb, <<>>),
      Desc(FALSE, FALSE, TRUE, <<IncAbnf>>, PkgAb, <<GenLexer, GenParser>>),
      Desc(FALSE, FALSE, TRUE, <<IncAbnf>>, PkgAbnf, <<GenLexer, GenParser>>),
      Desc(FALSE, FALSE, TRUE, <<IncAbnf>>, PkgAbnf, <<GenLexer>>) }

\* how the file system fails the write of the Makefile, if it does: not at
\* all, in os.Create, or in Execute before or after the first chunk
IoFaults == {"none", "create", "execute0", "execute1"}

VARIABLES
    \* ---- src/makemake.go ----
    dir,            \* the input directory: index of PomPool -> DescKinds
    ioFault,        \* the input: how creating or writing the Makefile fails,
                    \* "unobserved" until a run first calls os.Create
    pc,             \* where main is
    walked,         \* the files filepath.Walk has visited
    parsed,         \* the files passed to internal.ParsePom
    inserted,       \* the files stored into projects (line 192)
    projects,       \* projects: package name -> the file of its *Project
    grammars,       \* grammars
    rangeTodo,      \* the keys a range over projects has still to produce
    generatedFiles, \* generatedFiles
    err,            \* the fatal diagnostic, "" when none
    errName,        \* the project the fatal diagnostic names
    created,        \* this run has called os.Create("Makefile")
    makefile,       \* the Makefile on disk: the chunks written to it
    run,            \* which run over the directory this is
    firstOutcome,   \* the outcome of the first run
    \* ---- src/internal/tools/makemake.go ----
    g4dir,          \* the input directory: index of G4Pool -> G4Kinds
    g4ioFault,      \* the input: how creating or writing the Makefile fails
    g4pc,           \* where main is
    g4walked,       \* the files filepath.Walk has visited
    g4s,            \* g4s: lower-case grammar name -> the files of its grammars
    g4found,        \* g4s as the walk left it
    g4todo,         \* keys the running range over g4s must still produce
    g4opt,          \* keys added during the range: produced or skipped
    g4err,          \* the fatal diagnostic, "" when none
    g4created,      \* the run has called os.Create("Makefile")
    g4makefile      \* the Makefile on disk: the chunks written to it

pomVars == <<dir, ioFault, pc, walked, parsed, inserted, projects, grammars,
             rangeTodo, generatedFiles, err, errName, created, makefile,
             run, firstOutcome>>

g4Vars == <<g4dir, g4ioFault, g4pc, g4walked, g4s, g4found, g4todo, g4opt,
            g4err, g4created, g4makefile>>

vars == <<pomVars, g4Vars>>

\* onIgnoreList, returning from the loop at its first entry
onIgnoreListFirstOnly(path) == HasSuffix(path, Slash \o IGNORE[1] \o PomSuffix)

\* onIgnoreList
onIgnoreList(path) ==
    \E n \in 1..Len(IGNORE) : HasSuffix(path, Slash \o IGNORE[n] \o PomSuffix)

\* internal.ParsePom, by the file's index
ParsePom(i) == dir[i]

EmptyMap == [x \in {} |-> 0]

\* the Makefile before the first run: not there
NoFile == [exists |-> FALSE, chunks |-> <<>>]

PomInit ==
    /\ PomPoolSorted
    /\ \E S \in SUBSET (1..Len(PomPool)) :
           /\ Cardinality(S) <= MaxFiles
           /\ dir \in [S -> DescKinds]
    /\ ioFault = "unobserved"
    /\ pc = "walk"
    /\ walked = {}
    /\ parsed = {}
    /\ inserted = {}
    /\ projects = EmptyMap
    /\ grammars = <<>>
    /\ rangeTodo = {}
    /\ generatedFiles = EmptyMap
    /\ err = ""
    /\ errName = <<>>
    /\ created = FALSE
    /\ makefile = NoFile
    /\ run = 1
    /\ firstOutcome = <<>>

(***************************************************************************)
(* main, lines 161-198: the walk.  One step is one call of the walk        *)
(* function, on the next file in lexical order.                            *)
(***************************************************************************)
NextFile == CHOOSE i \in DOMAIN dir \ walked :
                \A j \in DOMAIN dir \ walked : i <= j

\* line 162-165: the file is a pom.xml that is not on the ignore list
ReachesParser(i) ==
    /\ ~dir[i].walkErr
    /\ HasSuffix(PomPool[i], PomSuffix)
    /\ ~onIgnoreList(PomPool[i])

\* ParsePom's error dropped
ParseErrorDropped(p) == FALSE

\* lines 167-170: ParsePom's error ends the walk function with that error
ParseAborts(p) == p.parseErr

\* the check of the includes left out
RetainedWithoutIncludes(p) == p.FoundAntlr4MavenPlugin

\* lines 172-180: the project is kept: it has the plugin and an include
Retained(p) == p.FoundAntlr4MavenPlugin /\ Len(p.Includes) # 0

\* the error the walk function returns for file i is not nil
WalkFnFails(i) ==
    IF ReachesParser(i) THEN ParseAborts(ParsePom(i))
    ELSE IF ~dir[i].walkErr /\ HasSuffix(PomPool[i], PomSuffix) THEN FALSE
    ELSE dir[i].walkErr

Walk ==
    /\ pc = "walk"
    /\ DOMAIN dir \ walked # {}
    /\ LET i == NextFile
           p == ParsePom(i)
       IN  /\ walked' = walked \cup {i}
           /\ parsed' = IF ReachesParser(i) THEN parsed \cup {i} ELSE parsed
           /\ IF WalkFnFails(i)
              THEN \* lines 196-198
                   /\ pc' = "fatal"
                   /\ err' = "failed to walk"
                   /\ UNCHANGED <<projects, inserted>>
              ELSE IF ReachesParser(i) /\ Retained(p)
              THEN \* line 192
                   /\ projects' = MapPut(projects, p.PackageName, i)
                   /\ inserted' = inserted \cup {i}
                   /\ UNCHANGED <<pc, err>>
              ELSE UNCHANGED <<pc, err, projects, inserted>>
    /\ UNCHANGED <<dir, ioFault, grammars, rangeTodo, generatedFiles, errName,
                   created, makefile, run, firstOutcome>>
    /\ UNCHANGED g4Vars

\* filepath.Walk returns nil; line 201 starts to range over projects
WalkDone ==
    /\ pc = "walk"
    /\ DOMAIN dir \ walked = {}
    /\ pc' = "collect"
    /\ rangeTodo' = DOMAIN projects
    /\ UNCHANGED <<dir, ioFault, walked, parsed, inserted, projects, grammars,
                   generatedFiles, err, errName, created, makefile, run,
                   firstOutcome>>
    /\ UNCHANGED g4Vars

(***************************************************************************)
(* main, lines 200-204: the names, in the order the map yields them, then  *)
(* sorted.                                                                 *)
(***************************************************************************)
Collect ==
    /\ pc = "collect"
    /\ \E name \in rangeTodo :
           /\ grammars' = Append(grammars, name)
           /\ rangeTodo' = rangeTodo \ {name}
    /\ UNCHANGED <<dir, ioFault, pc, walked, parsed, inserted, projects,
                   generatedFiles, err, errName, created, makefile, run,
                   firstOutcome>>
    /\ UNCHANGED g4Vars

\* the sort left out
UnsortedGrammars(g) == g

\* line 204
SortedGrammars(g) == SortStrings(g)

Sort ==
    /\ pc = "collect"
    /\ rangeTodo = {}
    /\ grammars' = SortedGrammars(grammars)
    /\ pc' = "genfiles"
    /\ rangeTodo' = DOMAIN projects
    /\ UNCHANGED <<dir, ioFault, walked, parsed, inserted, projects,
                   generatedFiles, err, errName, created, makefile, run,
                   firstOutcome>>
    /\ UNCHANGED g4Vars

(***************************************************************************)
(* main, lines 206-218: the generated files of each project.               *)
(***************************************************************************)
\* lines 208-212: name + "/" + file for each generated file name
Generated(name, project) ==
    [k \in 1..Len(project.GeneratedFilenames) |->
        name \o Slash \o project.GeneratedFilenames[k]]

\* the threshold off by one
TooFewGeneratedBelowOne(generated) == Len(generated) < 1

\* line 214
TooFewGenerated(generated) == Len(generated) < 2

GenFiles ==
    /\ pc = "genfiles"
    /\ \E name \in rangeTodo :
           LET generated == Generated(name, ParsePom(projects[name]))
           IN  /\ generatedFiles' = MapPut(generatedFiles, name, generated)
               /\ rangeTodo' = rangeTodo \ {name}
               /\ IF TooFewGenerated(generated)
                  THEN /\ pc' = "fatal"
                       /\ err' = "Expect atleast two generated files"
                       /\ errName' = name
                  ELSE UNCHANGED <<pc, err, errName>>
    /\ UNCHANGED <<dir, ioFault, walked, parsed, inserted, projects, grammars,
                   created, makefile, run, firstOutcome>>
    /\ UNCHANGED g4Vars

GenFilesDone ==
    /\ pc = "genfiles"
    /\ rangeTodo = {}
    /\ pc' = "create"
    /\ UNCHANGED <<dir, ioFault, walked, parsed, inserted, projects, grammars,
                   rangeTodo, generatedFiles, err, errName, created, makefile,
                   run, firstOutcome>>
    /\ UNCHANGED g4Vars

(***************************************************************************)
(* main, lines 220-246: the Makefile is created, then the template is      *)
(* executed into it.                                                       *)
(***************************************************************************)
\* line 92: Concat $name "/" $project.FilePrefix "_test.go"
TestFile(name, project) == name \o Slash \o project.FilePrefix \o TestSuffix

\* line 67: GRAMMARS := {{ Join .Grammars " " }}
GrammarsChunk(data) ==
    [kind |-> "GRAMMARS", name |-> <<>>, files |-> data.Grammars, deps |-> <<>>]

\* line 88: test: the test file of each project, in the order of the keys
TestChunk(data) ==
    LET keys == SortedKeys(data.Projects)
    IN  [kind |-> "test", name |-> <<>>,
         files |-> [k \in 1..Len(keys) |->
                       TestFile(keys[k], ParsePom(data.Projects[keys[k]]))],
         deps |-> <<>>]

\* lines 90-96: the rules of one project
RuleChunk(data, name) ==
    LET project == ParsePom(data.Projects[name])
    IN  [kind |-> "rule", name |-> name,
         files |-> <<TestFile(name, project)>> \o data.GeneratedFiles[name],
         deps |-> project.Includes]

\* MAKEFILE executed with data: the text, as the chunks that depend on data
Render(data) ==
    LET keys == SortedKeys(data.Projects)
    IN  <<GrammarsChunk(data), TestChunk(data)>>
        \o [k \in 1..Len(keys) |-> RuleChunk(data, keys[k])]

\* lines 220-224
TemplateData ==
    [Grammars |-> grammars, Projects |-> projects,
     GeneratedFiles |-> generatedFiles]

\* lines 239-242
Create ==
    /\ pc = "create"
    /\ ioFault' \in (IF ioFault = "unobserved" THEN IoFaults ELSE {ioFault})
    /\ IF ioFault' = "create"
       THEN /\ pc' = "fatal"
            /\ err' = "failed to create Makefile"
            /\ UNCHANGED <<created, makefile>>
       ELSE /\ pc' = "execute"
            /\ created' = TRUE
            /\ makefile' = [exists |-> TRUE, chunks |-> <<>>]
            /\ UNCHANGED err
    /\ UNCHANGED <<dir, walked, parsed, inserted, projects, grammars,
                   rangeTodo, generatedFiles, errName, run, firstOutcome>>
    /\ UNCHANGED g4Vars

\* lines 244-246: Execute writes the text as it goes, and may fail midway
Execute ==
    /\ pc = "execute"
    /\ LET chunks == Render(TemplateData)
       IN  IF ioFault \in {"execute0", "execute1"}
           THEN /\ pc' = "fatal"
                /\ err' = "failed to generate Makefile"
                /\ makefile' = [exists |-> TRUE,
                                chunks |-> IF ioFault = "execute0" THEN <<>>
                                           ELSE SubSeq(chunks, 1, 1)]
           ELSE /\ pc' = "done"
                /\ makefile' = [exists |-> TRUE, chunks |-> chunks]
                /\ UNCHANGED err
    /\ UNCHANGED <<dir, ioFault, walked, parsed, inserted, projects, grammars,
                   rangeTodo, generatedFiles, errName, created, run,
                   firstOutcome>>
    /\ UNCHANGED g4Vars

(***************************************************************************)
(* The program is run a second time over the same directory.               *)
(***************************************************************************)
\* how a run ended: rendered or the fatal diagnostic, and the text rendered
Outcome ==
    [status |-> pc, err |-> err,
     output |-> IF pc = "done" THEN makefile.chunks ELSE <<>>]

RunAgain ==
    /\ pc \in {"done", "fatal"}
    /\ run = 1
    /\ run' = 2
    /\ firstOutcome' = <<Outcome>>
    /\ pc' = "walk"
    /\ walked' = {}
    /\ parsed' = {}
    /\ inserted' = {}
    /\ projects' = EmptyMap
    /\ grammars' = <<>>
    /\ rangeTodo' = {}
    /\ generatedFiles' = EmptyMap
    /\ err' = ""
    /\ errName' = <<>>
    /\ created' = FALSE
    /\ UNCHANGED <<dir, ioFault, makefile>>
    /\ UNCHANGED g4Vars

PomNext ==
    \/ Walk
    \/ WalkDone
    \/ Collect
    \/ Sort
    \/ GenFiles
    \/ GenFilesDone
    \/ Create
    \/ Execute
    \/ RunAgain

\* the pom.xml program before it is started, for the .g4 program's runs
PomIdle ==
    /\ dir = EmptyMap
    /\ ioFault = "unobserved"
    /\ pc = "idle"
    /\ walked = {}
    /\ parsed = {}
    /\ inserted = {}
    /\ projects = EmptyMap
    /\ grammars = <<>>
    /\ rangeTodo = {}
    /\ generatedFiles = EmptyMap
    /\ err = ""
    /\ errName = <<>>
    /\ created = FALSE
    /\ makefile = NoFile
    /\ run = 1
    /\ firstOutcome = <<>>

(***************************************************************************)
(* src/internal/tools/makemake.go: constants.                              *)
(***************************************************************************)
\* ".g4"
G4Suffix == <<46,103,52>>
\* "parser"
ParserSuffix == <<112,97,114,115,101,114>>
\* "lexer"
LexerSuffix == <<108,101,120,101,114>>
\* "pom.xml"
PomName == <<112,111,109,46,120,109,108>>
\* "/Go/"
GoDir == <<47,71,111,47>>

IGNORE_PATHS ==
    << \* /antlr4/examples/
       <<47,97,110,116,108,114,52,47,101,120,97,109,112,108,101,115,47>>,
       \* /CSharpSharwell/
       <<47,67,83,104,97,114,112,83,104,97,114,119,101,108,108,47>>,
       \* /Python/
       <<47,80,121,116,104,111,110,47>>,
       \* /CSharp/
       <<47,67,83,104,97,114,112,47>>,
       \* /JavaScript/
       <<47,74,97,118,97,83,99,114,105,112,116,47>>,
       \* /two-step-processing/
       <<47,116,119,111,45,115,116,101,112,45,112,114,111,99,101,115,115,105,110,103,47>>,
       \* /python3-js/
       <<47,112,121,116,104,111,110,51,45,106,115,47>>,
       \* /python3-py/
       <<47,112,121,116,104,111,110,51,45,112,121,47>>,
       \* /python3-ts/
       <<47,112,121,116,104,111,110,51,45,116,115,47>>,
       \* .TypeScriptTarget.
       <<46,84,121,112,101,83,99,114,105,112,116,84,97,114,103,101,116,46>>,
       \* .JavaScriptTarget.
       <<46,74,97,118,97,83,99,114,105,112,116,84,97,114,103,101,116,46>>,
       \* .PythonTarget.
       <<46,80,121,116,104,111,110,84,97,114,103,101,116,46>>,
       \* /LexBasic.g4
       <<47,76,101,120,66,97,115,105,99,46,103,52>>,
       \* ecmascript/ECMAScript.g4
       <<101,99,109,97,115,99,114,105,112,116,47,69,67,77,65,83,99,114,105,112,116,46,103,52>> >>

(***************************************************************************)
(* The input directories of the .g4 program.  G4Pool lists, in the lexical *)
(* order filepath.Walk visits them, the files a directory may hold, each   *)
(* with the grammar name internal.ParseG4 reads from it; a directory holds *)
(* at most MaxG4Files of them.                                             *)
(***************************************************************************)
G4Pool ==
    << \* grammars-v4/antlr4/examples/Hello.g4, grammar Hello
       [Filename |-> <<103,114,97,109,109,97,114,115,45,118,52,47,97,110,116,108,114,52,47,101,120,97,109,112,108,101,115,47,72,101,108,108,111,46,103,52>>,
        Name |-> <<72,101,108,108,111>>],
       \* grammars-v4/t/README.md, grammar README
       [Filename |-> <<103,114,97,109,109,97,114,115,45,118,52,47,116,47,82,69,65,68,77,69,46,109,100>>,
        Name |-> <<82,69,65,68,77,69>>],
       \* grammars-v4/t/X.g4, grammar X
       [Filename |-> <<103,114,97,109,109,97,114,115,45,118,52,47,116,47,88,46,103,52>>,
        Name |-> <<88>>],
       \* grammars-v4/t/XLexer.g4, grammar XLexer
       [Filename |-> <<103,114,97,109,109,97,114,115,45,118,52,47,116,47,88,76,101,120,101,114,46,103,52>>,
        Name |-> <<88,76,101,120,101,114>>],
       \* grammars-v4/t/XLexerLexer.g4, grammar XLexerLexer
       [Filename |-> <<103,114,97,109,109,97,114,115,45,118,52,47,116,47,88,76,101,120,101,114,76,101,120,101,114,46,103,52>>,
        Name |-> <<88,76,101,120,101,114,76,101,120,101,114>>],
       \* grammars-v4/t/XLexerParser.g4, grammar XLexerParser
       [Filename |-> <<103,114,97,109,109,97,114,115,45,118,52,47,116,47,88,76,101,120,101,114,80,97,114,115,101,114,46,103,52>>,
        Name |-> <<88,76,101,120,101,114,80,97,114,115,101,114>>],
       \* grammars-v4/t/XParser.g4, grammar XParser
       [Filename |-> <<103,114,97,109,109,97,114,115,45,118,52,47,116,47,88,80,97,114,115,101,114,46,103,52>>,
        Name |-> <<88,80,97,114,115,101,114>>],
       \* grammars-v4/t/XParserLexer.g4, grammar XParserLexer
       [Filename |-> <<103,114,97,109,109,97,114,115,45,118,52,47,116,47,88,80,97,114,115,101,114,76,101,120,101,114,46,103,52>>,
        Name |-> <<88,80,97,114,115,101,114,76,101,120,101,114>>],
       \* grammars-v4/t/XParserParser.g4, grammar XParserParser
       [Filename |-> <<103,114,97,109,109,97,114,115,45,118,52,47,116,47,88,80,97,114,115,101,114,80,97,114,115,101,114,46,103,52>>,
        Name |-> <<88,80,97,114,115,101,114,80,97,114,115,101,114>>],
       \* grammars-v4/u/x.g4, grammar x
       [Filename |-> <<103,114,97,109,109,97,114,115,45,118,52,47,117,47,120,46,103,52>>,
        Name |-> <<120>>] >>

G4PoolSorted ==
    \A i \in 1..(Len(G4Pool) - 1) :
        StrLess(G4Pool[i].Filename, G4Pool[i + 1].Filename)

\* What a file of the directory is: what filepath.Walk reports for it and
\* whether internal.ParseG4 fails on it.
G4Kinds ==
    { [walkErr |-> FALSE, parseErr |-> FALSE],
      [walkErr |-> FALSE, parseErr |-> TRUE],
      [walkErr |-> TRUE, parseErr |-> FALSE] }

\* containAny
containAny(name, any) ==
    \E n \in 1..Len(any) : Contains(name, any[n])

G4Init ==
    /\ G4PoolSorted
    /\ \E S \in SUBSET (1..Len(G4Pool)) :
           /\ Cardinality(S) <= MaxG4Files
           /\ g4dir \in [S -> G4Kinds]
    /\ g4ioFault \in IoFaults
    /\ g4pc = "walk"
    /\ g4walked = {}
    /\ g4s = EmptyMap
    /\ g4found = EmptyMap
    /\ g4todo = {}
    /\ g4opt = {}
    /\ g4err = ""
    /\ g4created = FALSE
    /\ g4makefile = NoFile

\* the .g4 program before it is started, for the pom.xml program's runs
G4Idle ==
    /\ g4dir = EmptyMap
    /\ g4ioFault = "none"
    /\ g4pc = "idle"
    /\ g4walked = {}
    /\ g4s = EmptyMap
    /\ g4found = EmptyMap
    /\ g4todo = {}
    /\ g4opt = {}
    /\ g4err = ""
    /\ g4created = FALSE
    /\ g4makefile = NoFile

\* g4s[name], nil (the empty list) for a key the map does not hold
G4Get(m, name) == IF name \in DOMAIN m THEN m[name] ELSE <<>>

(***************************************************************************)
(* main, lines 179-204: the walk.  One step is one call of the walk        *)
(* function, on the next file in lexical order.                            *)
(***************************************************************************)
G4NextFile == CHOOSE i \in DOMAIN g4dir \ g4walked :
                  \A j \in DOMAIN g4dir \ g4walked : i <= j

\* lines 182-186: the file is a .g4 outside the ignored paths
G4ReachesParser(i) ==
    /\ ~containAny(G4Pool[i].Filename, IGNORE_PATHS)
    /\ ~g4dir[i].walkErr
    /\ HasSuffix(G4Pool[i].Filename, G4Suffix)

G4Walk ==
    /\ g4pc = "walk"
    /\ DOMAIN g4dir \ g4walked # {}
    /\ LET i == G4NextFile
           name == ToLower(G4Pool[i].Name)
       IN  /\ g4walked' = g4walked \cup {i}
           /\ IF ~G4ReachesParser(i)
              THEN UNCHANGED <<g4pc, g4err, g4s>>
              ELSE IF g4dir[i].parseErr
              THEN \* lines 188-190, 202-204
                   /\ g4pc' = "fatal"
                   /\ g4err' = "failed to walk"
                   /\ UNCHANGED g4s
              ELSE IF Len(G4Get(g4s, name)) > 0
              THEN \* lines 193-195
                   /\ g4pc' = "fatal"
                   /\ g4err' = "Multiple g4 files generate the same grammar"
                   /\ UNCHANGED g4s
              ELSE \* line 197
                   /\ g4s' = MapPut(g4s, name, Append(G4Get(g4s, name), i))
                   /\ UNCHANGED <<g4pc, g4err>>
    /\ UNCHANGED <<g4dir, g4ioFault, g4found, g4todo, g4opt, g4created,
                   g4makefile>>
    /\ UNCHANGED pomVars

\* filepath.Walk returns nil; line 207 starts to range over g4s
G4WalkDone ==
    /\ g4pc = "walk"
    /\ DOMAIN g4dir \ g4walked = {}
    /\ g4pc' = "merge"
    /\ g4found' = g4s
    /\ g4todo' = DOMAIN g4s
    /\ g4opt' = {}
    /\ UNCHANGED <<g4dir, g4ioFault, g4walked, g4s, g4err, g4created,
                   g4makefile>>
    /\ UNCHANGED pomVars

(***************************************************************************)
(* main, lines 206-231: parser and lexer grammars are merged.  The loop    *)
(* ranges over g4s while its body adds and deletes keys: a key deleted     *)
(* before the range reaches it is not produced, and a key added during the *)
(* range is produced or skipped, as the runtime chooses.                   *)
(***************************************************************************)
\* The body of the loop for key k: the map it leaves, or the fatal error.
MergeBody(m, k) ==
    LET files == m[k]
        name == TrimSuffix(k, ParserSuffix)
        parser == name \o ParserSuffix
        lexer == name \o LexerSuffix
    IN  IF ~HasSuffix(k, ParserSuffix)
        THEN [fatal |-> "", map |-> m]
        ELSE IF lexer \in DOMAIN m
        THEN IF name \in DOMAIN m
             THEN [fatal |-> "Can not merge Parser and Lexer", map |-> m]
             ELSE [fatal |-> "",
                   map |-> MapDelete(MapDelete(
                               MapPut(m, name, <<files[1], m[lexer][1]>>),
                               parser), lexer)]
        ELSE IF name \in DOMAIN m
             THEN [fatal |-> "Can not shorten Parser name", map |-> m]
             ELSE [fatal |-> "",
                   map |-> MapDelete(MapPut(m, name, m[parser]), parser)]

G4Merge ==
    /\ g4pc = "merge"
    /\ \E k \in g4todo \cup g4opt :
           LET r == MergeBody(g4s, k)
           IN  /\ g4s' = r.map
               /\ g4todo' = (g4todo \ {k}) \cap DOMAIN r.map
               /\ g4opt' = ((g4opt \ {k}) \cap DOMAIN r.map)
                               \cup (DOMAIN r.map \ DOMAIN g4s)
               /\ IF r.fatal # ""
                  THEN g4pc' = "fatal" /\ g4err' = r.fatal
                  ELSE UNCHANGED <<g4pc, g4err>>
    /\ UNCHANGED <<g4dir, g4ioFault, g4walked, g4found, g4created, g4makefile>>
    /\ UNCHANGED pomVars

\* the range is over; line 234 starts the next range over g4s
G4MergeDone ==
    /\ g4pc = "merge"
    /\ g4todo = {}
    /\ g4pc' = "lexer"
    /\ g4todo' = DOMAIN g4s
    /\ g4opt' = {}
    /\ UNCHANGED <<g4dir, g4ioFault, g4walked, g4s, g4found, g4err, g4created,
                   g4makefile>>
    /\ UNCHANGED pomVars

(***************************************************************************)
(* main, lines 233-244: the lexers left over are joined to their base      *)
(* grammar.                                                                *)
(***************************************************************************)
\* The body of the loop for key k: the map it leaves, the fatal error, or
\* the run-time panic of indexing the empty list g4s[name].
LexerBody(m, k) ==
    LET files == m[k]
        name == TrimSuffix(k, LexerSuffix)
        lexer == name \o LexerSuffix
    IN  IF ~HasSuffix(k, LexerSuffix)
        THEN [fatal |-> "", map |-> m]
        ELSE IF Len(G4Get(m, name)) > 1
        THEN [fatal |-> "Can not shorten Lexer name", map |-> m]
        ELSE IF Len(G4Get(m, name)) = 0
        THEN [fatal |-> "panic: index out of range", map |-> m]
        ELSE [fatal |-> "",
              map |-> MapDelete(MapPut(m, name, <<m[name][1], files[1]>>),
                                lexer)]

G4Lexer ==
    /\ g4pc = "lexer"
    /\ \E k \in g4todo \cup g4opt :
           LET r == LexerBody(g4s, k)
           IN  /\ g4s' = r.map
               /\ g4todo' = (g4todo \ {k}) \cap DOMAIN r.map
               /\ g4opt' = ((g4opt \ {k}) \cap DOMAIN r.map)
                               \cup (DOMAIN r.map \ DOMAIN g4s)
               /\ IF r.fatal = "panic: index out of range"
                  THEN g4pc' = "panic" /\ g4err' = r.fatal
                  ELSE IF r.fatal # ""
                  THEN g4pc' = "fatal" /\ g4err' = r.fatal
                  ELSE UNCHANGED <<g4pc, g4err>>
    /\ UNCHANGED <<g4dir, g4ioFault, g4walked, g4found, g4created, g4makefile>>
    /\ UNCHANGED pomVars

G4LexerDone ==
    /\ g4pc = "lexer"
    /\ g4todo = {}
    /\ g4pc' = "create"
    /\ g4opt' = {}
    /\ UNCHANGED <<g4dir, g4ioFault, g4walked, g4s, g4found, g4todo, g4err,
                   g4created, g4makefile>>
    /\ UNCHANGED pomVars

(***************************************************************************)
(* main, lines 246-283: the Makefile is created, then the template is      *)
(* executed into it.                                                       *)
(***************************************************************************)
\* filepath.Dir of a path that holds a "/": the path up to its last "/"
FilepathDir(path) ==
    LET last == CHOOSE i \in 1..Len(path) :
                    /\ path[i] = 47
                    /\ \A j \in (i + 1)..Len(path) : path[j] # 47
    IN  SubSeq(path, 1, last - 1)

\* strings.Replace(s, old, new, 1)
ReplaceFirst(s, old, new) ==
    IF ~Contains(s, old) THEN s
    ELSE LET at == CHOOSE i \in 0..(Len(s) - Len(old)) :
                       /\ SubSeq(s, i + 1, i + Len(old)) = old
                       /\ \A j \in 0..(i - 1) :
                              SubSeq(s, j + 1, j + Len(old)) # old
         IN  SubSeq(s, 1, at) \o new \o SubSeq(s, at + Len(old) + 1, Len(s))

\* lines 258-271: the template's Pom function
Pom(grammarFiles) ==
    ReplaceFirst(FilepathDir(G4Pool[grammarFiles[1]].Filename) \o Slash \o PomName,
                 GoDir, Slash)

\* line 68: GRAMMARS := the keys of .Grammars, in their sorted order
G4GrammarsChunk(data) ==
    [kind |-> "GRAMMARS", name |-> <<>>, files |-> SortedKeys(data.Grammars),
     deps |-> <<>>]

\* lines 148-159: the rules of one package: its name, the pom.xml Pom finds
\* and the file of each of its grammars
G4RuleChunk(data, name) ==
    [kind |-> "rule", name |-> name,
     files |-> [k \in 1..Len(data.Grammars[name]) |->
                   G4Pool[data.Grammars[name][k]].Filename],
     deps |-> <<Pom(data.Grammars[name])>>]

\* MAKEFILE executed with data: the text, as the chunks that depend on data
G4Render(data) ==
    LET keys == SortedKeys(data.Grammars)
    IN  <<G4GrammarsChunk(data)>>
        \o [k \in 1..Len(keys) |-> G4RuleChunk(data, keys[k])]

\* lines 246-248
G4TemplateData == [Grammars |-> g4s]

\* lines 276-279
G4Create ==
    /\ g4pc = "create"
    /\ IF g4ioFault = "create"
       THEN /\ g4pc' = "fatal"
            /\ g4err' = "failed to create Makefile"
            /\ UNCHANGED <<g4created, g4makefile>>
       ELSE /\ g4pc' = "execute"
            /\ g4created' = TRUE
            /\ g4makefile' = [exists |-> TRUE, chunks |-> <<>>]
            /\ UNCHANGED g4err
    /\ UNCHANGED <<g4dir, g4ioFault, g4walked, g4s, g4found, g4todo, g4opt>>
    /\ UNCHANGED pomVars

\* lines 281-283: Execute writes the text as it goes, and may fail midway
G4Execute ==
    /\ g4pc = "execute"
    /\ LET chunks == G4Render(G4TemplateData)
       IN  IF g4ioFault \in {"execute0", "execute1"}
           THEN /\ g4pc' = "fatal"
                /\ g4err' = "failed to generate Makefile"
                /\ g4makefile' = [exists |-> TRUE,
                                  chunks |-> IF g4ioFault = "execute0" THEN <<>>
                                             ELSE SubSeq(chunks, 1, 1)]
           ELSE /\ g4pc' = "done"
                /\ g4makefile' = [exists |-> TRUE, chunks |-> chunks]
                /\ UNCHANGED g4err
    /\ UNCHANGED <<g4dir, g4ioFault, g4walked, g4s, g4found, g4todo, g4opt,
                   g4created>>
    /\ UNCHANGED pomVars

G4Next ==
    \/ G4Walk
    \/ G4WalkDone
    \/ G4Merge
    \/ G4MergeDone
    \/ G4Lexer
    \/ G4LexerDone
    \/ G4Create
    \/ G4Execute

(***************************************************************************)
(* The specifications: Spec is src/makemake.go, SpecG4 is                  *)
(* src/internal/tools/makemake.go.                                         *)
(***************************************************************************)
Init == PomInit /\ G4Idle

Next == PomNext

Spec == Init /\ [][Next]_vars

InitG4 == PomIdle /\ G4Init

NextG4 == G4Next

SpecG4 == InitG4 /\ [][NextG4]_vars

(***************************************************************************)
(* What the claims speak of, stated on the input directory alone.          *)
(***************************************************************************)
\* "/objc/pom.xml" and "/swift-fin/pom.xml"
IgnoredSuffixes ==
    { <<47,111,98,106,99,47,112,111,109,46,120,109,108>>,
      <<47,115,119,105,102,116,45,102,105,110,47,112,111,109,46,120,109,108>> }

\* file i is a descriptor on the ignore list
IsIgnored(i) == \E suffix \in IgnoredSuffixes : HasSuffix(PomPool[i], suffix)

\* file i is a descriptor the walk hands to the parser
IsDescriptor(i) ==
    /\ HasSuffix(PomPool[i], PomSuffix)
    /\ ~IsIgnored(i)
    /\ ~dir[i].walkErr

\* file i is a descriptor that parses, has the plugin and an include
IsRetainable(i) ==
    /\ IsDescriptor(i)
    /\ ~dir[i].parseErr
    /\ dir[i].FoundAntlr4MavenPlugin
    /\ Len(dir[i].Includes) >= 1

\* file i is a descriptor that parses, without the plugin or without include
IsSkippable(i) ==
    /\ IsDescriptor(i)
    /\ ~dir[i].parseErr
    /\ (~dir[i].FoundAntlr4MavenPlugin \/ Len(dir[i].Includes) = 0)

\* file i ends the walk with an error
IsWalkError(i) == dir[i].walkErr \/ (IsDescriptor(i) /\ dir[i].parseErr)

\* the walk is over and did not fail
WalkSucceeded ==
    \/ pc \in {"collect", "genfiles", "create", "execute", "done"}
    \/ pc = "fatal" /\ err # "failed to walk"

\* the run has reached the render step
ReachedRender == pc \in {"create", "execute", "done"} \/ created

\* the names of the rule blocks of the Makefile, in their order
RuleNames ==
    LET rules == SelectSeq(makefile.chunks, LAMBDA c : c.kind = "rule")
    IN  [k \in 1..Len(rules) |-> rules[k].name]

\* s is in strictly ascending lexicographic order
Ascending(s) == \A k \in 1..(Len(s) - 1) : StrLess(s[k], s[k + 1])

(***************************************************************************)
(* C1: after the walk, every retainable descriptor is in projects exactly  *)
(* once, under its own package name, with its own project as the value.    *)
(* The code overwrites on equal names (line 192), so this is violated.     *)
(***************************************************************************)
C1_EachRetainedOnceUnderOwnName ==
    WalkSucceeded =>
        \A i \in DOMAIN dir :
            IsRetainable(i) =>
                /\ dir[i].PackageName \in DOMAIN projects
                /\ projects[dir[i].PackageName] = i
                /\ Cardinality({n \in DOMAIN projects : projects[n] = i}) = 1

(***************************************************************************)
(* C2: a run in which two retained descriptors derive the same package     *)
(* name ends in a fatal error and renders no Makefile.  The code has no    *)
(* such check, so this is violated.                                        *)
(***************************************************************************)
C2_NameCollisionIsFatal ==
    (\E i, j \in inserted :
        i # j /\ dir[i].PackageName = dir[j].PackageName)
    => (~created /\ pc \notin {"execute", "done"})

(***************************************************************************)
(* C3: a retained project with fewer than 2 generated files aborts the run *)
(* before the Makefile is created or rendered; a run that reaches the      *)
(* render step has a generatedFiles entry of length >= 2 for every key of  *)
(* projects.                                                               *)
(***************************************************************************)
C3_TooFewGeneratedAbortsBeforeRender ==
    /\ (\E n \in DOMAIN generatedFiles : Len(generatedFiles[n]) < 2)
           => (pc = "fatal" /\ ~created)
    /\ (WalkSucceeded /\ \E n \in DOMAIN projects :
            Len(dir[projects[n]].GeneratedFilenames) < 2)
           => ~ReachedRender
    /\ ReachedRender
           => \A n \in DOMAIN projects :
                  /\ n \in DOMAIN generatedFiles
                  /\ Len(generatedFiles[n]) >= 2

C3_Witness ==
    /\ pc = "fatal"
    /\ err = "Expect atleast two generated files"
    /\ Cardinality(DOMAIN projects) = 2
    /\ \E n \in DOMAIN generatedFiles : Len(generatedFiles[n]) = 1
    /\ ~created

(***************************************************************************)
(* C4: a descriptor on the ignore list is never parsed, is never in        *)
(* projects nor in the rendered Makefile, and, when malformed, does not    *)
(* abort the run: a failed walk has met a walk error or a parse error of a *)
(* descriptor that is not ignored.                                         *)
(***************************************************************************)
C4_IgnoredNeverParsed ==
    /\ \A i \in DOMAIN dir :
           IsIgnored(i) =>
               /\ i \notin parsed
               /\ i \notin inserted
               /\ \A n \in DOMAIN projects : projects[n] # i
    /\ (pc = "fatal" /\ err = "failed to walk")
           => \E j \in walked : IsWalkError(j)
    /\ pc = "done"
           => \A k \in 1..Len(RuleNames) :
                  /\ RuleNames[k] \in DOMAIN projects
                  /\ ~IsIgnored(projects[RuleNames[k]])

C4_Witness ==
    /\ pc = "done"
    /\ projects # EmptyMap
    /\ \A i \in DOMAIN dir : IsIgnored(i) <=> dir[i].parseErr
    /\ Cardinality({i \in DOMAIN dir : IsIgnored(i)}) = 2

(***************************************************************************)
(* C5: once a descriptor has failed to parse, the run is over with the     *)
(* fatal walk error, no later file has been visited or parsed, and the     *)
(* Makefile has been neither created nor written.                          *)
(***************************************************************************)
C5_FirstParseErrorAborts ==
    \A i \in parsed :
        dir[i].parseErr =>
            /\ pc = "fatal"
            /\ err = "failed to walk"
            /\ \A j \in DOMAIN dir : j > i => j \notin walked /\ j \notin parsed
            /\ ~created
            /\ (run = 1 => makefile = NoFile)

C5_Witness ==
    /\ pc = "fatal"
    /\ \E i \in parsed :
           /\ dir[i].parseErr
           /\ \E h \in inserted : h < i
           /\ \E j \in DOMAIN dir : j > i /\ IsRetainable(j)

(***************************************************************************)
(* C6: a run that ends with a render error has not created, truncated or   *)
(* written the Makefile.  The code creates (and truncates) the file before *)
(* it executes the template into it, so this is violated.                  *)
(***************************************************************************)
C6_RenderErrorLeavesNoOutput ==
    (pc = "fatal" /\ err = "failed to generate Makefile")
        => (~created /\ (run = 1 => makefile = NoFile))

(***************************************************************************)
(* C7: the second run over the same directory ends as the first did and,   *)
(* when it renders, writes the same text, whatever order the ranges over   *)
(* projects take; the names of GRAMMARS and the rule blocks are the keys   *)
(* of projects in ascending lexicographic order.                           *)
(***************************************************************************)
C7_Deterministic ==
    /\ (run = 2 /\ pc \in {"done", "fatal"}) => firstOutcome = <<Outcome>>
    /\ pc = "done" =>
           /\ Ascending(makefile.chunks[1].files)
           /\ {makefile.chunks[1].files[k] :
                   k \in 1..Len(makefile.chunks[1].files)} = DOMAIN projects
           /\ RuleNames = makefile.chunks[1].files

C7_Witness ==
    /\ run = 2
    /\ pc = "done"
    /\ Len(makefile.chunks[1].files) = 2
    /\ Len(RuleNames) = 2

(***************************************************************************)
(* C8: a descriptor without the plugin or without includes is not stored   *)
(* in projects and is in no rule of the Makefile, and does not abort the   *)
(* walk: after a walk that did not fail every retainable descriptor has    *)
(* been stored, and a walk fails only at a file that is in error.          *)
(***************************************************************************)
C8_SkippedWithoutAborting ==
    /\ \A i \in DOMAIN dir :
           IsSkippable(i) =>
               /\ i \notin inserted
               /\ \A n \in DOMAIN projects : projects[n] # i
    /\ WalkSucceeded
           => \A i \in DOMAIN dir :
                  /\ i \in walked
                  /\ IsRetainable(i) => i \in inserted
    /\ (pc = "fatal" /\ err = "failed to walk")
           => \E j \in walked :
                  /\ IsWalkError(j)
                  /\ \A h \in walked : h <= j
    /\ pc = "done"
           => \A k \in 1..Len(RuleNames) :
                  IsRetainable(projects[RuleNames[k]])

C8_Witness ==
    /\ pc = "done"
    /\ \E i, j, k \in DOMAIN dir :
           /\ i < k /\ j < k
           /\ IsSkippable(i) /\ ~dir[i].FoundAntlr4MavenPlugin
           /\ IsSkippable(j) /\ Len(dir[j].Includes) = 0
                             /\ dir[j].FoundAntlr4MavenPlugin
           /\ k \in inserted
           /\ Len(RuleNames) = 1

(***************************************************************************)
(* C9: when the merge passes have finished without a fatal error, every    *)
(* base name X with grammars X+"parser" and X+"lexer" found and no grammar *)
(* X found is a key of g4s holding [parser grammar, lexer grammar], and    *)
(* X+"parser" and X+"lexer" are no keys.  The passes treat the merged key  *)
(* X as one more parser or lexer name when it ends so, hence violated.     *)
(***************************************************************************)
MergePassesFinished ==
    \/ g4pc \in {"create", "execute", "done"}
    \/ g4pc = "fatal" /\ g4created

C9_ParserLexerPairMerged ==
    MergePassesFinished =>
        \A p \in DOMAIN g4found :
            LET X == TrimSuffix(p, ParserSuffix)
                l == X \o LexerSuffix
            IN  (HasSuffix(p, ParserSuffix) /\ l \in DOMAIN g4found
                     /\ X \notin DOMAIN g4found)
                => /\ X \in DOMAIN g4s
                   /\ g4s[X] = <<g4found[p][1], g4found[l][1]>>
                   /\ p \notin DOMAIN g4s
                   /\ l \notin DOMAIN g4s

(***************************************************************************)
(* C10: the lexer pass never indexes the empty list g4s[X].  For a lexer   *)
(* grammar X+"lexer" without a grammar X the code does, so this is         *)
(* violated.                                                               *)
(***************************************************************************)
C10_LexerPassNeverIndexesEmptyList == g4pc # "panic"

=============================================================================
